---- MODULE Spec2Model ----
(***************************************************************************)
(* Resumable harvest of a Skool classroom (SkoolScraper + Actor.main).     *)
(*                                                                         *)
(* One process ("run") is the main async function of Actor.main plus the   *)
(* 'migrating' event handler.  Both run on one event loop: the code        *)
(* between two awaits is one atomic step, and the handler may run at any   *)
(* await of the main flow.  The key-value store (SCRAPER_STATE), the       *)
(* dataset and the clock outlive a process; Restart starts the next run.   *)
(*                                                                         *)
(* A saveState call builds its value at the call and completes at a later  *)
(* step; requests in flight complete in the order they were issued.        *)
(* Time does not advance within a run, only between runs.                  *)
(* currentState.currentModule (a title used for logging) is left out.      *)
(***************************************************************************)
EXTENDS Integers, Sequences, FiniteSets, TLC

\* ---------------------------------------------------------------- bounds
MaxRuns == 2
MaxFaults == 1
MaxLinks == 3

\* ------------------------------------------------------ program constants
FreshWindowMs == 3600000
SaveEvery == 3
MinFallbackLen == 10

\* Time between two runs (ms): half an hour, exactly one hour, two hours.
GapChoices == {1800000, 3600000, 7200000}
StartMs == 2 * FreshWindowMs

MigrationMsg == "Migration in progress"
StructureMsg == "Failed to extract course structure"
TimeoutMsg == "Navigation timeout of 8000 ms exceeded"
LongTimeoutMsg == "Navigation timeout of 30000 ms exceeded"
LoginMsg == "Waiting for selector failed"
ClosedMsg == "Target closed"
SinkMsg == "pushData failed"
NullPageMsg == "Cannot read properties of null (reading 'goto')"
InputMsg == "Missing required input parameters: email, password, and classroomUrl"

NoState == [step |-> "none"]
Absent == "<absent>"

\* Course trees the classroom page may carry: a sequence of sections, each a
\* sequence of modules, a module given by whether its course id is present.
Trees ==
  { << <<TRUE, TRUE, TRUE>>, <<FALSE>> >>,
    << <<TRUE, TRUE, TRUE>>, <<TRUE, TRUE>> >>,
    << <<TRUE>> >>,
    << <<FALSE, TRUE>>, <<>> >> }

\* Page DOMs a module page may show: the text of the primary editor
\* container and of the fallback containers, in selector order.
PageDoms ==
  { [editor |-> "Lesson body text", fallback |-> <<>>],
    [editor |-> Absent, fallback |-> <<>>],
    [editor |-> Absent, fallback |-> <<"short", "Main area lesson text">>],
    [editor |-> "Hi", fallback |-> <<"Main area lesson text">>],
    [editor |-> "", fallback |-> <<"exactly10c">>] }

VARIABLES
  store,            \* value under key SCRAPER_STATE, or NoState
  pending,          \* setValue requests in flight, oldest first
  dataset,          \* records pushed to the dataset, over all runs
  now,              \* Date.now()
  run,              \* number of the current process
  site,             \* the course tree the classroom page carries
  pc,               \* await the main flow is suspended at
  hpc,              \* await the 'migrating' handler is suspended at
  browser,          \* this.browser: "null" or "set"
  chrome,           \* the browser process: "none", "open" or "closed"
  page,             \* what this.page shows
  shouldMigrate,    \* this.shouldMigrate
  currentState,     \* this.currentState
  data,             \* this.data
  baseClassroomUrl, \* this.baseClassroomUrl is set
  content,          \* courseStructure: content of each module, flattened
  allModules,       \* allModules: flat positions of the modules with an id
  i,                \* loop variable of scrapeDirectWithIds
  resumed,          \* result of loadState in init
  loaded,           \* the checkpoint loadState restored, or NoState
  err,              \* message of the error main's catch received
  exitCode,         \* -1 while running
  hist              \* observations (see HistInit)

vars == <<store, pending, dataset, now, run, site, pc, hpc, browser, chrome,
          page, shouldMigrate, currentState, data, baseClassroomUrl, content,
          allModules, i, resumed, loaded, err, exitCode, hist>>

\* ---------------------------------------------------------------- helpers
RECURSIVE FlattenFrom(_, _, _)
\* The modules of tree t from section s, module m on, in section order then
\* module order: the order of the two nested forEach loops.
FlattenFrom(t, s, m) ==
  IF s > Len(t) THEN <<>>
  ELSE IF m > Len(t[s]) THEN FlattenFrom(t, s + 1, 1)
  ELSE <<[section |-> s, module |-> m, hasId |-> t[s][m]]>>
         \o FlattenFrom(t, s, m + 1)

Flatten(t) == FlattenFrom(t, 1, 1)

\* As CollectModules, collecting from the last module to the first.
CollectModulesReversed(t) ==
  SelectSeq([k \in 1..Len(Flatten(t)) |-> Len(Flatten(t)) + 1 - k],
            LAMBDA k : Flatten(t)[k].hasId)

\* As CollectModules, keeping the modules without id.
CollectEveryModule(t) == [k \in 1..Len(Flatten(t)) |-> k]

\* Flat positions (1-based) of the modules that have an id, in order.
CollectModules(t) ==
  SelectSeq([k \in 1..Len(Flatten(t)) |-> k], LAMBDA k : Flatten(t)[k].hasId)

\* The state the constructor builds.
ConstructorState ==
  [step |-> "initializing", processedModules |-> 0, totalModules |-> 0]

\* The value saveState hands to Actor.setValue.
SavedValue(st, d, t) ==
  [step |-> st.step, processedModules |-> st.processedModules,
   totalModules |-> st.totalModules, scrapedData |-> d, timestamp |-> t]

\* As Restorable, taking a checkpoint exactly one window old as fresh.
RestorableInclusive(saved, t) ==
  /\ saved # NoState
  /\ saved.timestamp # 0
  /\ saved.timestamp >= t - FreshWindowMs

\* As Restorable, taking a checkpoint without timestamp as fresh.
RestorableUntimed(saved, t) ==
  /\ saved # NoState
  /\ (saved.timestamp = 0 \/ saved.timestamp > t - FreshWindowMs)

\* As Restorable, without the freshness test.
RestorableAnyAge(saved, t) ==
  /\ saved # NoState
  /\ saved.timestamp # 0

\* loadState's test on the value Actor.getValue returned.
Restorable(saved, t) ==
  /\ saved # NoState
  /\ saved.timestamp # 0
  /\ saved.timestamp > t - FreshWindowMs

\* { ...this.currentState, ...savedState } restricted to the modelled fields.
Restore(saved) ==
  [step |-> saved.step, processedModules |-> saved.processedModules,
   totalModules |-> saved.totalModules]

\* As InitReturnsEarly, without the early return.
InitNeverReturnsEarly(res, step) == FALSE

\* As MainSkips, without the early return.
MainNeverSkips(step) == FALSE

\* init returns before launching a browser (lines 85-88).
InitReturnsEarly(res, step) == res /\ step = "completed"

\* main returns after init (lines 451-454).
MainSkips(step) == step = "completed"

\* login's early return.
SkipLogin(step) == step \in {"logged_in", "scraping", "completed"}

\* generateModuleUrl: a URL exists iff base URL and module id are present.
generateModuleUrl(base, hasId) == base /\ hasId

\* Content the per-module catch block stores.
ErrorContent(msg) == "Error scraping content: " \o msg

\* As FirstFallback, without the minimum length.
FirstFallbackAnyLength(texts) ==
  IF \E k \in 1..Len(texts) : texts[k] # ""
  THEN texts[CHOOSE k \in 1..Len(texts) :
               texts[k] # "" /\ \A j \in 1..(k - 1) : texts[j] = ""]
  ELSE Absent

RECURSIVE FirstFallback(_)
\* The fallback loop of extractTextContent over the matched containers.
FirstFallback(texts) ==
  IF texts = <<>> THEN Absent
  ELSE IF Head(texts) # "" /\ Len(Head(texts)) > MinFallbackLen
       THEN Head(texts)
       ELSE FirstFallback(Tail(texts))

\* As extractTextContent, with an empty string when nothing is found.
extractTextContentNoSentinel(d, evalOk) ==
  IF ~evalOk THEN "Error extracting content"
  ELSE LET first == IF d.editor # Absent /\ d.editor # "" THEN d.editor
                    ELSE FirstFallback(d.fallback)
       IN  IF first = Absent THEN "" ELSE first

\* As extractTextContent, hiding a failed evaluation as missing content.
extractTextContentHidesError(d, evalOk) ==
  LET first == IF d.editor # Absent /\ d.editor # "" THEN d.editor
               ELSE FirstFallback(d.fallback)
  IN  IF ~evalOk \/ first = Absent THEN "No content found" ELSE first

\* extractTextContent on a page with DOM d; evalOk is FALSE when
\* page.evaluate throws.
extractTextContent(d, evalOk) ==
  IF ~evalOk THEN "Error extracting content"
  ELSE LET first == IF d.editor # Absent /\ d.editor # "" THEN d.editor
                    ELSE FirstFallback(d.fallback)
       IN  IF first = Absent THEN "No content found" ELSE first

\* As FlattenedData, leaving out the modules whose content is null.
FlattenedDataScrapedOnly(ct) ==
  SelectSeq([k \in 1..Len(ct) |-> [node |-> k, content |-> ct[k]]],
            LAMBDA e : e.content # "null")

\* The flattenedData list main builds from the course structure.
FlattenedData(ct) ==
  [k \in 1..Len(ct) |->
     [node |-> k, content |-> IF ct[k] = "null" THEN "No content scraped" ELSE ct[k]]]

\* The aggregate record main pushes first.
ResultRecord(t, ct) ==
  [type |-> "direct_id_scraping", totalSections |-> Len(t),
   totalModules |-> Len(FlattenedData(ct)), data |-> FlattenedData(ct)]

HistInit ==
  [attempted |-> <<>>,   \* allModules indices whose loop body ran past the poll
   navigated |-> <<>>,   \* allModules indices page.goto was called for
   pausedAt |-> -1,      \* index the loop saw the flag at
   raisedAt |-> -1,      \* index in flight when 'migrating' arrived
   launches |-> 0,       \* puppeteer.launch calls
   closeCalls |-> 0,     \* browser.close calls
   loggedIn |-> FALSE,   \* the login form was submitted in this process
   faults |-> 0,         \* spontaneous failures of the page, the store or
                         \* the sink, over all runs
   emitted |-> <<>>,     \* records pushed by this run
   seen |-> NoState,     \* what Actor.getValue returned to loadState
   nodeThrows |-> {},    \* indices whose page operation threw into the loop catch
   thrownAt |-> "none",  \* await at which the error main's catch got was thrown
   pauseStored |-> FALSE, \* the loop's pause checkpoint reached the store
   shown |-> <<>>]       \* per extraction: node index, DOM, evaluate worked

ProcessInit ==
  /\ pc = "start"
  /\ hpc = "idle"
  /\ browser = "null"
  /\ chrome = "none"
  /\ page = "none"
  /\ shouldMigrate = FALSE
  /\ currentState = ConstructorState
  /\ data = <<>>
  /\ baseClassroomUrl = FALSE
  /\ content = <<>>
  /\ allModules = <<>>
  /\ i = 0
  /\ resumed = FALSE
  /\ loaded = NoState
  /\ err = "none"
  /\ exitCode = -1
  /\ hist = HistInit

Init ==
  /\ store = NoState
  /\ pending = <<>>
  /\ dataset = <<>>
  /\ now = StartMs
  /\ run = 1
  /\ site \in Trees
  /\ ProcessInit

\* A value under SCRAPER_STATE that has no timestamp (0 stands for the
\* missing field).
UntimedCheckpoint ==
  [step |-> "scraping", processedModules |-> 2, totalModules |-> 5,
   scrapedData |-> <<>>, timestamp |-> 0]

\* As Init, with a store that may hold a value without timestamp.
InitStored ==
  /\ store \in {NoState, UntimedCheckpoint}
  /\ pending = <<>>
  /\ dataset = <<>>
  /\ now = StartMs
  /\ run = 1
  /\ site \in Trees
  /\ ProcessInit

\* ------------------------------------------------------- shared fragments
\* saveState called by owner ("main" or "handler") with currentState st:
\* the value is built at the call, the request completes later.
Issue(q, owner, st) ==
  Append(q, [owner |-> owner, val |-> SavedValue(st, data, now)])

\* As MainCatchExit, returning gracefully on every error.
MainCatchSwallows(e) == 0

\* The catch of Actor.main: a migration error is a graceful return.
MainCatchExit(e) == IF e \in {"none", MigrationMsg} THEN 0 ELSE 1

\* As ModuleCatchRethrows, re-throwing every error.
ModuleCatchRethrowsAll(msg) == TRUE

\* As ModuleCatchRethrows, re-throwing no error.
ModuleCatchRethrowsNone(msg) == FALSE

\* The per-module catch of scrapeDirectWithIds re-throws migration errors.
ModuleCatchRethrows(msg) == msg = MigrationMsg

\* The periodic save of the loop after module index j (0-based) succeeded.
SaveDue(j) == (j + 1) % SaveEvery = 0

\* As CloseCallsBrowser, never closing.
CloseCallsNothing(b) == FALSE

\* close() calls browser.close() iff this.browser is set.
CloseCallsBrowser(b) == b = "set"

\* Leaving the try block of Actor.main with error e ("none": no error):
\* catch, then finally { scraper.close() } with this.browser = b.
Finally(e, b, h) ==
  /\ err' = e
  /\ exitCode' = MainCatchExit(e)
  /\ IF CloseCallsBrowser(b)
     THEN /\ pc' = "closing"
          /\ chrome' = "closed"
          /\ hist' = [h EXCEPT !.closeCalls = @ + 1,
                               !.thrownAt = IF e = "none" THEN @ ELSE pc]
     ELSE /\ pc' = "exited"
          /\ chrome' = chrome
          /\ hist' = [h EXCEPT !.thrownAt = IF e = "none" THEN @ ELSE pc]

\* As PauseCursor, counting the module that was not yet attempted.
PauseCursorNext(j) == j + 1

\* The index the loop records as processedModules when it sees the flag
\* before module index j.
PauseCursor(j) == j

RECURSIVE NextStop(_, _)
\* First index >= j of am whose module has a URL (Len(am) if none): the
\* indices before it are passed by `continue` without an await.
NextStop(j, am) ==
  IF j >= Len(am) THEN Len(am)
  ELSE IF generateModuleUrl(baseClassroomUrl, Flatten(site)[am[j + 1]].hasId)
       THEN j
       ELSE NextStop(j + 1, am)

Range(a, b) == [k \in 1..(b - a + 1) |-> a + k - 1]

\* The for loop of scrapeDirectWithIds from index j up to its next await,
\* with currentState st, module list am, observations h and requests q.
EnterLoop(j, st, am, h, q) ==
  IF j < Len(am) /\ shouldMigrate
  THEN \* lines 296-299: record the index, prepareMigration -> saveState
       /\ i' = j
       /\ currentState' = [st EXCEPT !.processedModules = PauseCursor(j)]
       /\ pending' = Issue(q, "main", [st EXCEPT !.processedModules = PauseCursor(j)])
       /\ pc' = "save_pause_loop"
       /\ hist' = [h EXCEPT !.pausedAt = j]
  ELSE LET k == NextStop(j, am) IN
       IF k >= Len(am)
       THEN \* loop over: main flattens, marks completed and saves
            /\ i' = k
            /\ currentState' = [st EXCEPT !.step = "completed"]
            /\ pending' = Issue(q, "main", [st EXCEPT !.step = "completed"])
            /\ pc' = "save_completed"
            /\ hist' = [h EXCEPT !.attempted = @ \o Range(j, k - 1)]
       ELSE \* page.goto(moduleUrl) is called for index k
            /\ i' = k
            /\ currentState' = st
            /\ pending' = q
            /\ pc' = "nav"
            /\ hist' = [h EXCEPT !.attempted = @ \o Range(j, k),
                                 !.navigated = Append(@, k)]

\* A spontaneous failure of the page, the store or the sink is still within
\* budget.
MayFault == hist.faults < MaxFaults
Faulted(h) == [h EXCEPT !.faults = @ + 1]
StoreNoted(ok) == IF ok THEN hist ELSE Faulted(hist)

\* ------------------------------------------------------------- main flow
\* Actor.main: getInput, validation, constructor, handler registration,
\* then init() up to its await of Actor.getValue.
Start ==
  /\ pc = "start"
  /\ pc' = "init_load"
  /\ UNCHANGED <<store, pending, dataset, now, run, site, hpc, browser, chrome,
                 page, shouldMigrate, currentState, data, baseClassroomUrl,
                 content, allModules, i, resumed, loaded, err, exitCode, hist>>

\* Input validation fails: the error leaves Actor.main before the try.
BadInput ==
  /\ pc = "start"
  /\ pc' = "exited"
  /\ err' = InputMsg
  /\ exitCode' = 1
  /\ UNCHANGED <<store, pending, dataset, now, run, site, hpc, browser, chrome,
                 page, shouldMigrate, currentState, data, baseClassroomUrl,
                 content, allModules, i, resumed, loaded, hist>>

\* loadState: Actor.getValue returns; init returns early on a restored
\* completed state, and main then returns through finally.
InitLoad ==
  /\ pc = "init_load"
  /\ \E ok \in BOOLEAN :
       /\ ~ok => MayFault
       /\ LET sv == IF ok THEN store ELSE NoState
              res == ok /\ Restorable(store, now)
              st == IF res THEN Restore(store) ELSE currentState
              h == StoreNoted(ok)
          IN  /\ resumed' = res
              /\ loaded' = IF res THEN store ELSE NoState
              /\ currentState' = st
              /\ data' = IF res THEN store.scrapedData ELSE data
              /\ IF InitReturnsEarly(res, st.step)
                 THEN \* no browser, no page: main returns, or (login being
                      \* skipped) navigateToClassroom uses the null page
                      Finally(IF MainSkips(st.step) THEN "none" ELSE NullPageMsg,
                              browser, [h EXCEPT !.seen = sv])
                 ELSE /\ pc' = "init_launch"
                      /\ hist' = [h EXCEPT !.launches = @ + 1, !.seen = sv]
                      /\ UNCHANGED <<err, exitCode, chrome>>
  /\ UNCHANGED <<store, pending, dataset, now, run, site, hpc, browser, page,
                 shouldMigrate, baseClassroomUrl, content, allModules, i>>

\* puppeteer.launch resolves; browser.newPage is called.
InitLaunch ==
  /\ pc = "init_launch"
  /\ browser' = "set"
  /\ chrome' = "open"
  /\ pc' = "init_page"
  /\ UNCHANGED <<store, pending, dataset, now, run, site, hpc, page,
                 shouldMigrate, currentState, data, baseClassroomUrl, content,
                 allModules, i, resumed, loaded, err, exitCode, hist>>

\* As InitStep, setting 'initialized' also on a resumed run.
InitStepAlways(res, step) == "initialized"

\* The step init leaves: 'initialized' unless the run resumed.
InitStep(res, step) == IF res THEN step ELSE "initialized"

\* After init: login (or its early return) and, when login is skipped, the
\* next call of main, up to the first await.
AfterInit(step) ==
  IF ~SkipLogin(step) THEN "goto_login"
  ELSE IF step # "scraping" THEN "goto_classroom"
  ELSE "extract_structure"

\* newPage, setUserAgent and setViewport resolve (or throw on a closed
\* browser); init sets 'initialized' on a fresh start; login begins.
InitPage ==
  /\ pc = "init_page"
  /\ IF chrome = "open"
     THEN /\ page' = "blank"
          /\ currentState' = [currentState EXCEPT
                                !.step = InitStep(resumed, currentState.step)]
          /\ IF MainSkips(currentState'.step)
             THEN Finally("none", browser, hist)
             ELSE /\ pc' = AfterInit(currentState'.step)
                  /\ UNCHANGED <<err, exitCode, chrome, hist>>
     ELSE /\ Finally(ClosedMsg, browser, hist)
          /\ UNCHANGED <<page, currentState>>
  /\ UNCHANGED <<store, pending, dataset, now, run, site, hpc, browser,
                 shouldMigrate, data, baseClassroomUrl, content, allModules,
                 i, resumed, loaded>>

\* login: page.goto(login page) resolves or throws; then the migration
\* check of lines 126-130.
GotoLogin ==
  /\ pc = "goto_login"
  /\ \/ /\ chrome # "open"
        /\ Finally(ClosedMsg, browser, hist)
        /\ UNCHANGED <<page, pending>>
     \/ /\ chrome = "open" /\ MayFault
        /\ Finally(LongTimeoutMsg, browser, Faulted(hist))
        /\ UNCHANGED <<page, pending>>
     \/ /\ chrome = "open"
        /\ page' = "login"
        /\ IF shouldMigrate
           THEN /\ pending' = Issue(pending, "main", currentState)
                /\ pc' = "save_pause_login"
           ELSE /\ pending' = pending
                /\ pc' = "login_form"
        /\ UNCHANGED <<err, exitCode, chrome, hist>>
  /\ UNCHANGED <<store, dataset, now, run, site, hpc, browser, shouldMigrate,
                 currentState, data, baseClassroomUrl, content, allModules, i,
                 resumed, loaded>>

\* login: the form is filled and submitted and the navigation after it
\* ends; step becomes 'logged_in' and saveState is called.
LoginForm ==
  /\ pc = "login_form"
  /\ \/ /\ chrome # "open"
        /\ Finally(ClosedMsg, browser, hist)
        /\ UNCHANGED <<page, pending, currentState>>
     \/ /\ chrome = "open" /\ MayFault
        /\ Finally(LoginMsg, browser, Faulted(hist))
        /\ UNCHANGED <<page, pending, currentState>>
     \/ /\ chrome = "open"
        /\ page' = "home"
        /\ currentState' = [currentState EXCEPT !.step = "logged_in"]
        /\ pending' = Issue(pending, "main", currentState')
        /\ pc' = "save_login"
        /\ hist' = [hist EXCEPT !.loggedIn = TRUE]
        /\ UNCHANGED <<err, exitCode, chrome>>
  /\ UNCHANGED <<store, dataset, now, run, site, hpc, browser, shouldMigrate,
                 data, baseClassroomUrl, content, allModules, i, resumed,
                 loaded>>

\* navigateToClassroom: page.goto(classroomUrl) resolves or throws; on
\* success main sets step 'scraping' and calls saveState.
GotoClassroom ==
  /\ pc = "goto_classroom"
  /\ \/ /\ chrome # "open"
        /\ Finally(ClosedMsg, browser, hist)
        /\ UNCHANGED <<page, pending, currentState, baseClassroomUrl>>
     \/ /\ chrome = "open" /\ MayFault
        /\ Finally(LongTimeoutMsg, browser, Faulted(hist))
        /\ UNCHANGED <<page, pending, currentState, baseClassroomUrl>>
     \/ /\ chrome = "open"
        /\ page' = "classroom"
        /\ baseClassroomUrl' = TRUE
        /\ currentState' = [currentState EXCEPT !.step = "scraping"]
        /\ pending' = Issue(pending, "main", currentState')
        /\ pc' = "save_scraping"
        /\ UNCHANGED <<err, exitCode, chrome, hist>>
  /\ UNCHANGED <<store, dataset, now, run, site, hpc, browser, shouldMigrate,
                 data, content, allModules, i, resumed, loaded>>

\* __NEXT_DATA__ is on the page only when the page shows the classroom (or
\* one of its modules) in an open browser.
HasNextData == chrome = "open" /\ page \in {"classroom", "module"}

\* extractCourseStructure resolves: null (fatal) or the course tree; the
\* module list is collected and the loop runs up to its first await.
ExtractStructure ==
  /\ pc = "extract_structure"
  /\ \/ /\ ~HasNextData
        /\ Finally(StructureMsg, browser, hist)
        /\ UNCHANGED <<content, allModules, i, currentState, pending>>
     \/ /\ HasNextData /\ MayFault
        /\ Finally(StructureMsg, browser, Faulted(hist))
        /\ UNCHANGED <<content, allModules, i, currentState, pending>>
     \/ /\ HasNextData
        /\ content' = [k \in 1..Len(Flatten(site)) |-> "null"]
        /\ allModules' = CollectModules(site)
        /\ EnterLoop(currentState.processedModules,
                     [currentState EXCEPT !.totalModules = Len(CollectModules(site))],
                     CollectModules(site), hist, pending)
        /\ UNCHANGED <<err, exitCode, chrome>>
  /\ UNCHANGED <<store, dataset, now, run, site, hpc, browser, page,
                 shouldMigrate, data, baseClassroomUrl, resumed, loaded>>

\* A page operation of module index i threw.
NodeThrew(h) == [h EXCEPT !.nodeThrows = @ \cup {i}]

\* The catch block of one loop iteration, for error msg thrown in the try
\* of module index i, with this.browser = b, observations h and requests
\* q: a re-throw up to main, or error content and the next iteration.
ModuleCatch(msg, b, h, q) ==
  IF ModuleCatchRethrows(msg)
  THEN /\ Finally(msg, b, h)
       /\ pending' = q
       /\ UNCHANGED <<content, i, currentState>>
  ELSE /\ content' = [content EXCEPT ![allModules[i + 1]] = ErrorContent(msg)]
       /\ EnterLoop(i + 1, currentState, allModules, h, q)
       /\ UNCHANGED <<err, exitCode, chrome>>

\* 'Migration in progress' thrown after prepareMigration returned, in
\* login (inLoop FALSE: login's catch re-throws it to main) or in the try
\* of the loop (inLoop TRUE).
PauseThrow(inLoop, b, h, q) ==
  IF inLoop
  THEN ModuleCatch(MigrationMsg, b, h, q)
  ELSE /\ Finally(MigrationMsg, b, h)
       /\ pending' = q
       /\ UNCHANGED <<content, i, currentState>>

\* page.goto(moduleUrl) resolves or throws (timeout, closed browser).
NavDone ==
  /\ pc = "nav"
  /\ \/ /\ chrome # "open"
        /\ ModuleCatch(ClosedMsg, browser, NodeThrew(hist), pending)
        /\ page' = page
     \/ /\ chrome = "open" /\ MayFault
        /\ ModuleCatch(TimeoutMsg, browser, NodeThrew(Faulted(hist)), pending)
        /\ page' = page
     \/ /\ chrome = "open"
        /\ page' = "module"
        /\ pc' = "extract"
        /\ UNCHANGED <<content, i, currentState, pending, err, exitCode,
                       chrome, hist>>
  /\ UNCHANGED <<store, dataset, now, run, site, hpc, browser, shouldMigrate,
                 data, baseClassroomUrl, allModules, resumed, loaded>>

PlainDom == [editor |-> "Lesson body text", fallback |-> <<>>]

\* delay(300) and extractTextContent resolve: the content is written, the
\* progress counter is set to i + 1 and every third module saveState runs.
ExtractDone ==
  /\ pc = "extract"
  /\ \E d \in PageDoms, evalOk \in BOOLEAN :
       /\ (chrome # "open") => (~evalOk /\ d = PlainDom)
       /\ (chrome = "open" /\ (~evalOk \/ d # PlainDom)) => MayFault
       /\ (~evalOk) => d = PlainDom
       /\ LET h0 == [hist EXCEPT !.shown = Append(@,
                         [node |-> i, dom |-> d, evalOk |-> evalOk])]
              h == IF chrome = "open" /\ (~evalOk \/ d # PlainDom)
                   THEN Faulted(h0) ELSE h0
              st == [currentState EXCEPT !.processedModules = i + 1]
          IN  /\ content' = [content EXCEPT
                               ![allModules[i + 1]] = extractTextContent(d, evalOk)]
              /\ IF SaveDue(i)
                 THEN /\ currentState' = st
                      /\ pending' = Issue(pending, "main", st)
                      /\ pc' = "save_loop"
                      /\ i' = i
                      /\ hist' = h
                 ELSE EnterLoop(i + 1, st, allModules, h, pending)
  /\ UNCHANGED <<store, dataset, now, run, site, hpc, browser, chrome, page,
                 shouldMigrate, data, baseClassroomUrl, allModules, resumed,
                 loaded, err, exitCode>>

\* The oldest request in flight belongs to owner and ends: the value is
\* stored, or the request fails and saveState only logs it.
Completes(owner, ok) ==
  /\ pending # <<>>
  /\ Head(pending).owner = owner
  /\ ~ok => MayFault
  /\ store' = IF ok THEN Head(pending).val ELSE store

\* saveState of login returns; delay(500); navigateToClassroom starts.
SaveDoneLogin ==
  /\ pc = "save_login"
  /\ \E ok \in BOOLEAN :
       /\ Completes("main", ok)
       /\ hist' = StoreNoted(ok)
  /\ pending' = Tail(pending)
  /\ pc' = "goto_classroom"
  /\ UNCHANGED <<dataset, now, run, site, hpc, browser, chrome, page,
                 shouldMigrate, currentState, data, baseClassroomUrl, content,
                 allModules, i, resumed, loaded, err, exitCode>>

\* saveState after step = 'scraping' returns; scrapeDirectWithIds starts.
SaveDoneScraping ==
  /\ pc = "save_scraping"
  /\ \E ok \in BOOLEAN :
       /\ Completes("main", ok)
       /\ hist' = StoreNoted(ok)
  /\ pending' = Tail(pending)
  /\ pc' = "extract_structure"
  /\ UNCHANGED <<dataset, now, run, site, hpc, browser, chrome, page,
                 shouldMigrate, currentState, data, baseClassroomUrl, content,
                 allModules, i, resumed, loaded, err, exitCode>>

\* The periodic saveState of the loop returns; next iteration.
SaveDoneLoop ==
  /\ pc = "save_loop"
  /\ \E ok \in BOOLEAN :
       /\ Completes("main", ok)
       /\ EnterLoop(i + 1, currentState, allModules, StoreNoted(ok), Tail(pending))
  /\ UNCHANGED <<dataset, now, run, site, hpc, browser, chrome, page,
                 shouldMigrate, data, baseClassroomUrl, content, allModules,
                 resumed, loaded, err, exitCode>>

\* prepareMigration called by the main flow: its saveState returns, then
\* the browser is closed if this.browser is set, else the error is thrown.
SaveDonePause ==
  /\ pc \in {"save_pause_login", "save_pause_loop"}
  /\ \E ok \in BOOLEAN :
       /\ Completes("main", ok)
       /\ LET h == [StoreNoted(ok) EXCEPT
                      !.pauseStored = ok /\ pc = "save_pause_loop"]
          IN  IF browser = "set"
              THEN /\ pc' = IF pc = "save_pause_loop" THEN "close_pause_loop"
                            ELSE "close_pause_login"
                   /\ chrome' = "closed"
                   /\ hist' = [h EXCEPT !.closeCalls = @ + 1]
                   /\ pending' = Tail(pending)
                   /\ UNCHANGED <<err, exitCode, content, i, currentState>>
              ELSE PauseThrow(pc = "save_pause_loop", browser, h, Tail(pending))
  /\ UNCHANGED <<dataset, now, run, site, hpc, browser, page, shouldMigrate,
                 data, baseClassroomUrl, allModules, resumed, loaded>>

\* browser.close() of the main flow's prepareMigration resolves:
\* this.browser = null, 'Migration in progress' is thrown up to main.
ClosePauseDone ==
  /\ pc \in {"close_pause_login", "close_pause_loop"}
  /\ browser' = "null"
  /\ PauseThrow(pc = "close_pause_loop", "null", hist, pending)
  /\ UNCHANGED <<store, dataset, now, run, site, hpc, page, shouldMigrate,
                 data, baseClassroomUrl, allModules, resumed, loaded>>

\* saveState after step = 'completed' returns; pushData(result) is called.
SaveDoneCompleted ==
  /\ pc = "save_completed"
  /\ \E ok \in BOOLEAN :
       /\ Completes("main", ok)
       /\ hist' = StoreNoted(ok)
  /\ pending' = Tail(pending)
  /\ pc' = "push_result"
  /\ UNCHANGED <<dataset, now, run, site, hpc, browser, chrome, page,
                 shouldMigrate, currentState, data, baseClassroomUrl, content,
                 allModules, i, resumed, loaded, err, exitCode>>

\* Actor.pushData(result) resolves or throws.
PushResult ==
  /\ pc = "push_result"
  /\ \/ /\ MayFault
        /\ Finally(SinkMsg, browser, Faulted(hist))
        /\ dataset' = dataset
     \/ /\ dataset' = Append(dataset, ResultRecord(site, content))
        /\ hist' = [hist EXCEPT !.emitted = Append(@, ResultRecord(site, content))]
        /\ pc' = "push_items"
        /\ UNCHANGED <<err, exitCode, chrome>>
  /\ UNCHANGED <<store, pending, now, run, site, hpc, browser, page,
                 shouldMigrate, currentState, data, baseClassroomUrl, content,
                 allModules, i, resumed, loaded>>

\* The pushData loop over result.data: the first n items are pushed; the
\* loop ends there when a push throws, else main leaves the try normally.
PushItems ==
  /\ pc = "push_items"
  /\ \E n \in 0..Len(content) :
       LET items == SubSeq(FlattenedData(content), 1, n)
           h == [hist EXCEPT !.emitted = @ \o items]
       IN  /\ n < Len(content) => MayFault
           /\ dataset' = dataset \o items
           /\ IF n < Len(content)
              THEN Finally(SinkMsg, browser, Faulted(h))
              ELSE Finally("none", browser, h)
  /\ UNCHANGED <<store, pending, now, run, site, hpc, browser, page,
                 shouldMigrate, currentState, data, baseClassroomUrl, content,
                 allModules, i, resumed, loaded>>

\* scraper.close() in finally resolves; Actor.main ends the process.
FinalClose ==
  /\ pc = "closing"
  /\ pc' = "exited"
  /\ UNCHANGED <<store, pending, dataset, now, run, site, hpc, browser, chrome,
                 page, shouldMigrate, currentState, data, baseClassroomUrl,
                 content, allModules, i, resumed, loaded, err, exitCode, hist>>

\* ------------------------------------------------- 'migrating' handler
Alive == pc \notin {"start", "exited"}

\* The platform emits 'migrating': prepareMigration sets the flag and
\* calls saveState.
Migrating ==
  /\ Alive
  /\ hpc = "idle"
  /\ shouldMigrate' = TRUE
  /\ pending' = Issue(pending, "handler", currentState)
  /\ hpc' = "h_save"
  /\ hist' = [hist EXCEPT !.raisedAt = IF pc \in {"nav", "extract"} THEN i ELSE -1]
  /\ UNCHANGED <<store, dataset, now, run, site, pc, browser, chrome, page,
                 currentState, data, baseClassroomUrl, content, allModules, i,
                 resumed, loaded, err, exitCode>>

\* The handler's saveState returns; the browser is closed if set.
HandlerSaveDone ==
  /\ Alive
  /\ hpc = "h_save"
  /\ \E ok \in BOOLEAN :
       /\ Completes("handler", ok)
       /\ IF browser = "set"
          THEN /\ hpc' = "h_close"
               /\ chrome' = "closed"
               /\ hist' = [StoreNoted(ok) EXCEPT !.closeCalls = @ + 1]
          ELSE /\ hpc' = "h_done"
               /\ chrome' = chrome
               /\ hist' = StoreNoted(ok)
  /\ pending' = Tail(pending)
  /\ UNCHANGED <<dataset, now, run, site, pc, browser, page, shouldMigrate,
                 currentState, data, baseClassroomUrl, content, allModules, i,
                 resumed, loaded, err, exitCode>>

\* The handler's browser.close() resolves: this.browser = null.
HandlerCloseDone ==
  /\ Alive
  /\ hpc = "h_close"
  /\ browser' = "null"
  /\ hpc' = "h_done"
  /\ UNCHANGED <<store, pending, dataset, now, run, site, pc, chrome, page,
                 shouldMigrate, currentState, data, baseClassroomUrl, content,
                 allModules, i, resumed, loaded, err, exitCode, hist>>

\* ------------------------------------------------------------ environment
\* A request still in flight when the process ended reaches the store or
\* is lost.
OrphanWrite ==
  /\ pc = "exited"
  /\ pending # <<>>
  /\ \E ok \in BOOLEAN : store' = IF ok THEN Head(pending).val ELSE store
  /\ pending' = Tail(pending)
  /\ UNCHANGED <<dataset, now, run, site, pc, hpc, browser, chrome, page,
                 shouldMigrate, currentState, data, baseClassroomUrl, content,
                 allModules, i, resumed, loaded, err, exitCode, hist>>

\* The platform starts the actor again, some time later: a new process,
\* a new SkoolScraper.
Restart ==
  /\ pc = "exited"
  /\ pending = <<>>
  /\ run < MaxRuns
  /\ run' = run + 1
  /\ \E gap \in GapChoices : now' = now + gap
  /\ pc' = "start"
  /\ hpc' = "idle"
  /\ browser' = "null"
  /\ chrome' = "none"
  /\ page' = "none"
  /\ shouldMigrate' = FALSE
  /\ currentState' = ConstructorState
  /\ data' = <<>>
  /\ baseClassroomUrl' = FALSE
  /\ content' = <<>>
  /\ allModules' = <<>>
  /\ i' = 0
  /\ resumed' = FALSE
  /\ loaded' = NoState
  /\ err' = "none"
  /\ exitCode' = -1
  /\ hist' = [HistInit EXCEPT !.faults = hist.faults]
  /\ UNCHANGED <<store, pending, dataset, site>>

Next ==
  \/ Start \/ BadInput \/ InitLoad \/ InitLaunch \/ InitPage
  \/ GotoLogin \/ LoginForm \/ SaveDoneLogin
  \/ GotoClassroom \/ SaveDoneScraping
  \/ ExtractStructure \/ NavDone \/ ExtractDone \/ SaveDoneLoop
  \/ SaveDonePause \/ ClosePauseDone
  \/ SaveDoneCompleted \/ PushResult \/ PushItems \/ FinalClose
  \/ Migrating \/ HandlerSaveDone \/ HandlerCloseDone
  \/ OrphanWrite \/ Restart

Spec == Init /\ [][Next]_vars

TypeOK ==
  /\ pc \in {"start", "init_load", "init_launch", "init_page", "goto_login",
             "login_form", "save_login", "goto_classroom", "save_scraping",
             "extract_structure", "nav", "extract", "save_loop",
             "save_pause_login", "save_pause_loop", "close_pause_login",
             "close_pause_loop",
             "save_completed", "push_result", "push_items", "closing",
             "exited"}
  /\ hpc \in {"idle", "h_save", "h_close", "h_done"}
  /\ browser \in {"null", "set"}
  /\ chrome \in {"none", "open", "closed"}
  /\ Len(pending) <= 2

\* The steps of the main flow.  Every await of the main flow ends (its
\* promise resolves or rejects), so the main flow is not suspended for
\* ever at an await whose step stays possible.
MainFlow ==
  \/ Start \/ BadInput \/ InitLoad \/ InitLaunch \/ InitPage
  \/ GotoLogin \/ LoginForm \/ SaveDoneLogin
  \/ GotoClassroom \/ SaveDoneScraping
  \/ ExtractStructure \/ NavDone \/ ExtractDone \/ SaveDoneLoop
  \/ SaveDonePause \/ ClosePauseDone
  \/ SaveDoneCompleted \/ PushResult \/ PushItems \/ FinalClose

LiveSpec == Init /\ [][Next]_vars /\ WF_vars(MainFlow)

SpecStored == InitStored /\ [][Next]_vars

\* ================================================ main.js (Apify.main)
\* The variant without checkpoints: one process, no 'migrating' handler.
\* It is modelled over the same fields (browser, page, data, the dataset,
\* err, exitCode); site is what the classroom page carries, allModules is
\* uniqueModuleLinks, content is the content of the course structure's
\* modules, i is the loop variable.  The checkpoint fields stay unused.

EvalMsg == "Evaluation failed"
TypeErrorMsg == "Cannot read properties of undefined (reading 'sections')"

\* Module titles, as sequences of words.
TitleIntro == <<"Intro">>
TitleIntroAdvanced == <<"Intro", "Advanced">>
TitleSetup == <<"Setup">>

\* The anchors a classroom page may show.
Anchors ==
  { [href |-> "a", text |-> TitleIntro],
    [href |-> "b", text |-> TitleIntroAdvanced],
    [href |-> "c", text |-> TitleSetup] }

\* The lists of module links querySelectorAll may return: up to MaxLinks
\* anchors in any order, with repetitions.
LinkLists == UNION {[1..n -> Anchors] : n \in 0..MaxLinks}

\* What the classroom page may carry: the course tree of __NEXT_DATA__
\* (course: whether it has course data; tree: its sections of module
\* titles) and its module links, in document order.
JsSites ==
  { [course |-> TRUE,
     tree |-> << <<TitleIntroAdvanced, TitleIntro>>, <<TitleSetup>> >>,
     links |-> << [href |-> "a", text |-> TitleIntro],
                  [href |-> "b", text |-> TitleIntroAdvanced],
                  [href |-> "a", text |-> TitleIntro],
                  [href |-> "c", text |-> TitleSetup] >>],
    [course |-> TRUE, tree |-> << <<TitleSetup>> >>,
     links |-> << [href |-> "c", text |-> TitleSetup] >>],
    [course |-> FALSE, tree |-> <<>>,
     links |-> << [href |-> "a", text |-> TitleIntro],
                  [href |-> "b", text |-> TitleIntroAdvanced],
                  [href |-> "a", text |-> TitleIntro] >>],
    [course |-> FALSE, tree |-> <<>>, links |-> <<>>] }
  \cup {[course |-> FALSE, tree |-> <<>>, links |-> l] : l \in LinkLists}

RECURSIVE JsTitlesFrom(_, _)
\* The module titles of tree t from section s on, in section order then
\* module order.
JsTitlesFrom(t, s) == IF s > Len(t) THEN <<>> ELSE t[s] \o JsTitlesFrom(t, s + 1)

JsTitles(t) == JsTitlesFrom(t, 1)

\* As FindIndexHref, finding the last index.
FindLastIndexHref(links, href) ==
  CHOOSE j \in 1..Len(links) :
    /\ links[j].href = href
    /\ \A j2 \in (j + 1)..Len(links) : links[j2].href # href

\* self.findIndex(l => l.href === link.href)
FindIndexHref(links, href) ==
  CHOOSE j \in 1..Len(links) :
    /\ links[j].href = href
    /\ \A j2 \in 1..(j - 1) : links[j2].href # href

RECURSIVE UniqueFrom(_, _)
\* moduleLinks.filter((link, index, self) => index === findIndex(...)),
\* from index k on.
UniqueFrom(links, k) ==
  IF k > Len(links) THEN <<>>
  ELSE (IF k = FindIndexHref(links, links[k].href) THEN <<links[k]>> ELSE <<>>)
         \o UniqueFrom(links, k + 1)

uniqueModuleLinks(links) == UniqueFrom(links, 1)

\* a.includes(b) on titles
Includes(a, b) ==
  \E k \in 1..(Len(a) - Len(b) + 1) : SubSeq(a, k, k + Len(b) - 1) = b

\* The test matchAndAddContent applies to one child: exact, else partial.
TitleMatches(child, t) == child = t \/ Includes(child, t) \/ Includes(t, child)

\* The module at which the loops of matchAndAddContent return for title
\* t: the first one, in section then module order, that passes the test
\* (0 when the loops end without a match).
MatchedIndex(titles, t) ==
  IF \E k \in 1..Len(titles) : TitleMatches(titles[k], t)
  THEN CHOOSE k \in 1..Len(titles) :
         /\ TitleMatches(titles[k], t)
         /\ \A j \in 1..(k - 1) : ~TitleMatches(titles[j], t)
  ELSE 0

\* matchAndAddContent: the content goes to the module the loops return
\* at; ct is unchanged without a match.
matchAndAddContent(titles, ct, t, c) ==
  IF MatchedIndex(titles, t) = 0 THEN ct
  ELSE [ct EXCEPT ![MatchedIndex(titles, t)] = c]

HistJsInit ==
  [faults |-> 0,          \* spontaneous failures of the page or the sink
   structure |-> "unknown", \* extractCourseStructure: "found" or "null"
   tabsCalls |-> 0,       \* calls of scrapeClassroomTabs
   visited |-> <<>>,      \* hrefs page.goto was called with, in order
   matched |-> <<>>,      \* per matchAndAddContent call: title, module assigned
   deduped |-> 0,         \* times the module links were read and filtered
   emitted |-> <<>>]      \* records pushed

InitJs ==
  /\ store = NoState
  /\ pending = <<>>
  /\ dataset = <<>>
  /\ now = StartMs
  /\ run = 1
  /\ site \in JsSites
  /\ pc = "js_start"
  /\ hpc = "idle"
  /\ browser = "null"
  /\ chrome = "none"
  /\ page = "none"
  /\ shouldMigrate = FALSE
  /\ currentState = ConstructorState
  /\ data = <<>>
  /\ baseClassroomUrl = FALSE
  /\ content = <<>>
  /\ allModules = <<>>
  /\ i = 0
  /\ resumed = FALSE
  /\ loaded = NoState
  /\ err = "none"
  /\ exitCode = -1
  /\ hist = HistJsInit

\* Fields main.js does not have.
idleVars == <<store, pending, now, run, hpc, shouldMigrate, currentState,
              baseClassroomUrl, resumed, loaded>>

\* What extractCourseStructure returns for null.
NullStructure == [isNull |-> TRUE, sections |-> <<>>]

\* As FallsBack, never falling back.
FallsBackNever(cs) == FALSE

\* scrapeAndMatchContent falls back to scrapeClassroomTabs (if (!courseStructure)).
FallsBack(cs) == cs.isNull

\* Leaving the try of Apify.main with error e: the catch re-throws every
\* error, finally closes the browser.
JsFinally(e, h) ==
  /\ err' = e
  /\ exitCode' = IF e = "none" THEN 0 ELSE 1
  /\ chrome' = IF CloseCallsBrowser(browser) THEN "closed" ELSE chrome
  /\ pc' = "js_exited"
  /\ hist' = h

\* The aggregate record main builds.
JsResult(kind) ==
  IF kind = "enhanced"
  THEN [type |-> "enhanced", totalModules |-> Len(content),
        data |-> [k \in 1..Len(content) |->
                    [moduleTitle |-> JsTitles(site.tree)[k],
                     content |-> IF content[k] = "null"
                                 THEN "No content scraped" ELSE content[k]]]]
  ELSE [type |-> "regular", totalModules |-> Len(data), data |-> data]

\* scrapeClassroomTabs returned (nothing) to its caller: inside
\* scrapeAndMatchContent the undefined goes up to main, whose test
\* if (enhancedCourseStructure) fails and which scrapes the tabs itself;
\* in main the 'regular' result is built and pushData(result) is called.
TabsReturn(caller) ==
  IF caller = "inner" THEN "js_tabs_main" ELSE "js_push_regular"

\* Apify.main: getInput, validation, init's launchPuppeteer.
JsStart ==
  /\ pc = "js_start"
  /\ pc' = "js_launch"
  /\ UNCHANGED <<idleVars, dataset, site, browser, chrome, page, data, content,
                 allModules, i, err, exitCode, hist>>

\* Input validation fails.
JsBadInput ==
  /\ pc = "js_start"
  /\ pc' = "js_exited"
  /\ err' = InputMsg
  /\ exitCode' = 1
  /\ UNCHANGED <<idleVars, dataset, site, browser, chrome, page, data, content,
                 allModules, i, hist>>

\* init: the browser is launched and a page opened; login begins.
JsLaunch ==
  /\ pc = "js_launch"
  /\ browser' = "set"
  /\ chrome' = "open"
  /\ page' = "blank"
  /\ pc' = "js_login"
  /\ UNCHANGED <<idleVars, dataset, site, data, content, allModules, i, err,
                 exitCode, hist>>

\* login ends: it threw, or the session is logged in.
JsLogin ==
  /\ pc = "js_login"
  /\ \/ /\ MayFault
        /\ JsFinally(LoginMsg, Faulted(hist))
        /\ page' = page
     \/ /\ page' = "home"
        /\ pc' = "js_classroom"
        /\ UNCHANGED <<err, exitCode, chrome, hist>>
  /\ UNCHANGED <<idleVars, dataset, site, browser, data, content, allModules, i>>

\* navigateToClassroom ends; main chooses the scraping method from
\* input.useEnhancedScraping.
JsNavigate ==
  /\ pc = "js_classroom"
  /\ \/ /\ MayFault
        /\ JsFinally(LongTimeoutMsg, Faulted(hist))
        /\ UNCHANGED <<page>>
     \/ /\ page' = "classroom"
        /\ \E useEnhancedScraping \in BOOLEAN :
             pc' = IF useEnhancedScraping THEN "js_structure" ELSE "js_tabs_main"
        /\ UNCHANGED <<err, exitCode, chrome, hist>>
  /\ UNCHANGED <<idleVars, dataset, site, browser, data, content, allModules, i>>

\* The record scrapeCurrentPageContent returns for the classroom page.
CurrentPageRecord == [tabTitle |-> <<"Current", "Page">>, textContent |-> PlainDom.editor]

\* The record scrapeTabContent(module.text) returns; when the extraction
\* threw, its catch returns the error record.
TabRecord(link, ok) ==
  [tabTitle |-> link.text,
   textContent |-> IF ok THEN PlainDom.editor ELSE "Error extracting content"]

\* scrapeAndMatchContent: extractCourseStructure ends.  It returns null
\* without course data and when its evaluate threw (caught inside); on
\* null the method returns what scrapeClassroomTabs returns.
JsExtractStructure ==
  /\ pc = "js_structure"
  /\ \E failed \in {f \in BOOLEAN : f => MayFault} :
       LET cs == IF failed \/ ~site.course THEN NullStructure
                 ELSE [isNull |-> FALSE, sections |-> site.tree]
           h0 == IF failed THEN Faulted(hist) ELSE hist
           h1 == [h0 EXCEPT !.structure = IF cs.isNull THEN "null" ELSE "found"]
       IN IF FallsBack(cs)
          THEN /\ pc' = "js_tabs_inner"
               /\ hist' = h1
               /\ UNCHANGED <<content, err, exitCode, chrome>>
          ELSE IF cs.isNull
          THEN /\ JsFinally(TypeErrorMsg, h1)
               /\ UNCHANGED <<content>>
          ELSE /\ content' = [k \in 1..Len(JsTitles(cs.sections)) |-> "null"]
               /\ pc' = "js_links"
               /\ hist' = h1
               /\ UNCHANGED <<err, exitCode, chrome>>
  /\ UNCHANGED <<idleVars, dataset, site, browser, page, data, allModules, i>>

\* scrapeAndMatchContent: the sections are expanded and the module links
\* read and de-duplicated; an evaluate that throws ends the method.  With
\* no link the course structure is returned at once.
JsFindLinks ==
  /\ pc = "js_links"
  /\ \/ /\ MayFault
        /\ JsFinally(EvalMsg, Faulted(hist))
        /\ UNCHANGED <<allModules, i>>
     \/ /\ allModules' = uniqueModuleLinks(site.links)
        /\ i' = 0
        /\ pc' = IF allModules' = <<>> THEN "js_push_enhanced" ELSE "js_nav"
        /\ hist' = [hist EXCEPT !.deduped = @ + 1]
        /\ UNCHANGED <<err, exitCode, chrome>>
  /\ UNCHANGED <<idleVars, dataset, site, browser, page, data, content>>

\* Where the enhanced loop goes after module index k.
JsNextModule(k) == IF k + 1 < Len(allModules) THEN "js_nav" ELSE "js_push_enhanced"

\* Enhanced loop: page.goto(module.href) ends; a failure is logged by the
\* loop's catch and the loop goes on.
JsNavDone ==
  /\ pc = "js_nav"
  /\ \/ /\ MayFault
        /\ hist' = [Faulted(hist) EXCEPT !.visited = Append(@, allModules[i + 1].href)]
        /\ i' = i + 1
        /\ pc' = JsNextModule(i)
        /\ UNCHANGED <<page>>
     \/ /\ hist' = [hist EXCEPT !.visited = Append(@, allModules[i + 1].href)]
        /\ page' = "module"
        /\ pc' = "js_extract"
        /\ UNCHANGED <<i>>
  /\ UNCHANGED <<idleVars, dataset, site, browser, chrome, data, content,
                 allModules, err, exitCode>>

\* Enhanced loop: extractTextContent ends and matchAndAddContent files
\* the text under the module link's title.
JsExtractDone ==
  /\ pc = "js_extract"
  /\ \E evalOk \in {ok \in BOOLEAN : ~ok => MayFault} :
       /\ content' = matchAndAddContent(JsTitles(site.tree), content,
                                        allModules[i + 1].text,
                                        extractTextContent(PlainDom, evalOk))
       /\ hist' = [(IF evalOk THEN hist ELSE Faulted(hist)) EXCEPT
                     !.matched = Append(@,
                        [title |-> allModules[i + 1].text,
                         node |-> MatchedIndex(JsTitles(site.tree),
                                               allModules[i + 1].text)])]
  /\ i' = i + 1
  /\ pc' = JsNextModule(i)
  /\ UNCHANGED <<idleVars, dataset, site, browser, chrome, page, data,
                 allModules, err, exitCode>>

\* Which call of scrapeClassroomTabs the process is in.
TabsCaller == IF pc \in {"js_tabs_inner", "js_tab_nav_inner"} THEN "inner" ELSE "main"

\* Where scrapeClassroomTabs goes after module index k.
JsNextTab(k, n) ==
  IF k + 1 < n THEN (IF TabsCaller = "inner" THEN "js_tab_nav_inner" ELSE "js_tab_nav_main")
  ELSE TabsReturn(TabsCaller)

\* scrapeClassroomTabs up to its loop: the module links are read and
\* de-duplicated (an evaluate that throws ends the method with the error)
\* and the current page's record is pushed to this.data, unless
\* scrapeCurrentPageContent caught an error and returned null.
JsTabs ==
  /\ pc \in {"js_tabs_inner", "js_tabs_main"}
  /\ \/ /\ MayFault
        /\ JsFinally(EvalMsg, [Faulted(hist) EXCEPT !.tabsCalls = @ + 1])
        /\ UNCHANGED <<allModules, i, data>>
     \/ /\ allModules' = uniqueModuleLinks(site.links)
        /\ \E ok \in {o \in BOOLEAN : ~o => MayFault} :
             /\ data' = IF ok THEN Append(data, CurrentPageRecord) ELSE data
             /\ hist' = [(IF ok THEN hist ELSE Faulted(hist)) EXCEPT
                           !.tabsCalls = @ + 1, !.deduped = @ + 1]
        /\ i' = 0
        /\ pc' = JsNextTab(-1, Len(allModules'))
        /\ UNCHANGED <<err, exitCode, chrome>>
  /\ UNCHANGED <<idleVars, dataset, site, browser, page, content>>

\* scrapeClassroomTabs' loop: page.goto(module.href) ends; on success
\* scrapeTabContent's record is pushed to this.data, a failure is logged
\* by the loop's catch; either way the loop goes on.
JsTabNavDone ==
  /\ pc \in {"js_tab_nav_inner", "js_tab_nav_main"}
  /\ \/ /\ MayFault
        /\ hist' = [Faulted(hist) EXCEPT !.visited = Append(@, allModules[i + 1].href)]
        /\ UNCHANGED <<page, data>>
     \/ /\ page' = "module"
        /\ \E ok \in {o \in BOOLEAN : ~o => MayFault} :
             /\ data' = Append(data, TabRecord(allModules[i + 1], ok))
             /\ hist' = [(IF ok THEN hist ELSE Faulted(hist))
                           EXCEPT !.visited = Append(@, allModules[i + 1].href)]
  /\ i' = i + 1
  /\ pc' = JsNextTab(i, Len(allModules))
  /\ UNCHANGED <<idleVars, dataset, site, browser, chrome, content, allModules,
                 err, exitCode>>

\* The kind of result main has built.
JsKind == IF pc \in {"js_push_enhanced", "js_items_enhanced"} THEN "enhanced" ELSE "regular"

\* Apify.pushData(result) ends.
JsPushResult ==
  /\ pc \in {"js_push_enhanced", "js_push_regular"}
  /\ \/ /\ MayFault
        /\ JsFinally(SinkMsg, Faulted(hist))
        /\ UNCHANGED <<dataset>>
     \/ /\ dataset' = Append(dataset, JsResult(JsKind))
        /\ hist' = [hist EXCEPT !.emitted = Append(@, JsResult(JsKind))]
        /\ pc' = IF JsKind = "enhanced" THEN "js_items_enhanced" ELSE "js_items_regular"
        /\ UNCHANGED <<err, exitCode, chrome>>
  /\ UNCHANGED <<idleVars, site, browser, page, data, content, allModules, i>>

\* The loop of pushData(item) ends: all items are pushed, or a push fails
\* after n of them; then the try is left.
JsPushItems ==
  /\ pc \in {"js_items_enhanced", "js_items_regular"}
  /\ LET items == JsResult(JsKind).data
     IN \E n \in {m \in 0..Len(items) : m < Len(items) => MayFault} :
          /\ dataset' = dataset \o SubSeq(items, 1, n)
          /\ JsFinally(IF n < Len(items) THEN SinkMsg ELSE "none",
                       [(IF n < Len(items) THEN Faulted(hist) ELSE hist)
                          EXCEPT !.emitted = @ \o SubSeq(items, 1, n)])
  /\ UNCHANGED <<idleVars, site, browser, page, data, content, allModules, i>>

NextJs ==
  \/ JsStart
  \/ JsBadInput
  \/ JsLaunch
  \/ JsLogin
  \/ JsNavigate
  \/ JsExtractStructure
  \/ JsFindLinks
  \/ JsNavDone
  \/ JsExtractDone
  \/ JsTabs
  \/ JsTabNavDone
  \/ JsPushResult
  \/ JsPushItems

SpecJs == InitJs /\ [][NextJs]_vars


\* ================================================================ claims
\* This run restored a checkpoint of phase 'scraping' with nodes left.
ResumedHarvest ==
  /\ loaded # NoState
  /\ loaded.step = "scraping"
  /\ loaded.processedModules < loaded.totalModules

\* This run restored a checkpoint of phase 'completed'.
RerunOfCompleted == loaded # NoState /\ loaded.step = "completed"

\* loadState saw a checkpoint at least one freshness window old.
StaleSeen ==
  /\ hist.seen # NoState
  /\ now - hist.seen.timestamp >= FreshWindowMs

\* The non-empty contents of a course structure, in flattened order.
WrittenContents(ct) == SelectSeq(ct, LAMBDA c : c # "null")

\* C1 (as claimed): a run that restored a fresh 'scraping' checkpoint with
\* cursor c < totalNodes, was not interrupted and met no failure, has
\* attempted exactly the nodes c .. totalNodes-1, in that order, when it ends.
C1_ResumeAttemptsRest ==
  (ResumedHarvest /\ pc = "exited" /\ hpc = "idle" /\ hist.faults = 0)
    => hist.attempted = Range(loaded.processedModules, loaded.totalModules - 1)

\* C2: once the loop has seen the flag at the poll before node i, the cursor
\* is i and stays i, node i was not navigated to, the checkpoint the loop
\* hands to the store has cursor i, and once stored it is the checkpoint.
C2_PauseKeepsCursor ==
  hist.pausedAt >= 0 =>
    /\ currentState.processedModules = hist.pausedAt
    /\ \A k \in 1..Len(hist.navigated) : hist.navigated[k] # hist.pausedAt
    /\ pc = "save_pause_loop" =>
         \E k \in 1..Len(pending) :
           /\ pending[k].owner = "main"
           /\ pending[k].val.processedModules = hist.pausedAt
    /\ hist.pauseStored =>
         (store # NoState /\ store.processedModules = hist.pausedAt)

\* C2 witness: the loop paused before node 2, its checkpoint was stored and
\* the run ended as a pause.
C2_Witness ==
  /\ hist.pausedAt = 2
  /\ hist.pauseStored
  /\ pc = "exited"
  /\ exitCode = 0

\* C3 (as claimed): when 'migrating' arrives while node 3 of 5 is in flight
\* and nothing else fails, the checkpoint left when the run has stopped has
\* cursor 3.
C3_InFlightNodeIsCursor ==
  (/\ Len(allModules) = 5
   /\ hist.raisedAt = 3
   /\ pc = "exited"
   /\ pending = <<>>
   /\ hist.faults = 0)
    => (store # NoState /\ store.processedModules = 3)

\* C4 (as claimed): while node i is in flight every earlier attempt has
\* advanced the cursor, so the cursor is i.
C4_CursorFollowsAttempts ==
  pc \in {"nav", "extract"} => currentState.processedModules = i

\* C5 (as claimed): 0 <= cursor <= totalNodes, and phase 'completed' implies
\* cursor = totalNodes.
C5_CursorWithinTotal ==
  /\ 0 <= currentState.processedModules
  /\ currentState.processedModules <= currentState.totalModules
  /\ currentState.step = "completed"
       => currentState.processedModules = currentState.totalModules

\* C6: an error thrown while a node is processed never reaches main's
\* catch; the node's content is the error string and the loop has moved on.
C6_NodeFailureAbsorbed ==
  /\ hist.thrownAt \notin {"nav", "extract"}
  /\ \A k \in hist.nodeThrows :
       /\ content[allModules[k + 1]]
            \in {ErrorContent(TimeoutMsg), ErrorContent(ClosedMsg)}
       /\ i > k

\* C6 witness: a run in which a node's navigation timed out has completed
\* and exited normally.
C6_Witness ==
  /\ hist.nodeThrows # {}
  /\ \E k \in 1..Len(content) : content[k] = ErrorContent(TimeoutMsg)
  /\ currentState.step = "completed"
  /\ pc = "exited"
  /\ exitCode = 0

\* C7 (as claimed): the checkpoint the loop's periodic save hands to the
\* store holds the node contents written so far.
C7_CheckpointHoldsContents ==
  pc = "save_loop" =>
    pending[Len(pending)].val.scrapedData = WrittenContents(content)

\* C8: a run that saw a stale checkpoint restores nothing: it starts from
\* the constructor's state with cursor 0, the loop starts at node 0, and
\* the harvest is reached only through login and classroom navigation.
C8_StaleIgnored ==
  StaleSeen =>
    /\ ~resumed
    /\ loaded = NoState
    /\ pc \in {"init_launch", "init_page"} => currentState = ConstructorState
    /\ pc \in {"init_launch", "init_page", "goto_login", "login_form",
               "save_login", "goto_classroom", "save_scraping",
               "extract_structure"}
         => currentState.processedModules = 0
    /\ hist.attempted # <<>> => hist.attempted[1] = 0
    /\ pc \in {"save_scraping", "extract_structure", "nav", "extract",
               "save_loop", "save_pause_loop", "save_completed",
               "push_result", "push_items"}
         => (hist.loggedIn /\ baseClassroomUrl)

\* C8 witness: a checkpoint with cursor 2 of 5, two hours old, was seen and
\* the run is navigating to node 0 after logging in again.
C8_Witness ==
  /\ StaleSeen
  /\ hist.seen.step = "scraping"
  /\ hist.seen.processedModules = 2
  /\ hist.seen.totalModules = 5
  /\ now - hist.seen.timestamp = 2 * FreshWindowMs
  /\ pc = "nav"
  /\ i = 0
  /\ hist.loggedIn

\* C9: a run that restored a 'completed' checkpoint launches no browser,
\* opens no page, logs in and navigates nowhere, touches no node content,
\* keeps the checkpoint's phase and cursor, has the main flow write no
\* checkpoint, and leaves the stored checkpoint as it was unless the
\* 'migrating' handler ran.
C9_CompletedRerunIsNoop ==
  RerunOfCompleted =>
    /\ hist.launches = 0
    /\ browser = "null"
    /\ chrome = "none"
    /\ page = "none"
    /\ ~hist.loggedIn
    /\ ~baseClassroomUrl
    /\ hist.navigated = <<>>
    /\ hist.attempted = <<>>
    /\ content = <<>>
    /\ currentState = Restore(loaded)
    /\ \A k \in 1..Len(pending) : pending[k].owner # "main"
    /\ hpc = "idle" => store = loaded

\* C9 witness: such a run has ended, with exit code 0.
C9_Witness ==
  /\ RerunOfCompleted
  /\ pc = "exited"
  /\ exitCode = 0
  /\ run = 2

\* C10 (as claimed): the second run, run against the completed checkpoint
\* of the first, has pushed what the first run pushed: the dataset is that
\* output twice.
C10_RerunReemits ==
  (run = 2 /\ RerunOfCompleted /\ pc = "exited")
    => dataset = hist.emitted \o hist.emitted

\* C10 (amended): a run that restored a 'completed' checkpoint pushes no
\* record and ends normally with exit code 0.
C10_RerunEmitsNothing ==
  RerunOfCompleted =>
    /\ hist.emitted = <<>>
    /\ pc = "exited" => (exitCode = 0 /\ err = "none")

\* C10 witness: the completing run pushed records, the re-run has ended and
\* pushed none.
C10_Witness ==
  /\ RerunOfCompleted
  /\ pc = "exited"
  /\ dataset # <<>>
  /\ hist.emitted = <<>>

\* The cursor of the stored checkpoint (0 when there is none).
PersistedCursor == IF store = NoState THEN 0 ELSE store.processedModules

\* Node indices whose attempt has ended in this run.
FinishedAttempts ==
  {k \in 0..(i - 1) : \E n \in 1..Len(hist.attempted) : hist.attempted[n] = k}

\* C11 (as claimed): while the loop runs, at most 3 nodes whose attempt has
\* ended in this run lie at or beyond the cursor of the stored checkpoint.
C11_ReworkAtMostThree ==
  pc \in {"nav", "extract", "save_loop"}
    => Cardinality({k \in FinishedAttempts : k >= PersistedCursor}) <= SaveEvery

\* C12 (as claimed): a run in which 'migrating' was raised and nothing
\* failed by itself ends with exit code 0.
C12_SignalEndsGraceful ==
  (shouldMigrate /\ pc = "exited" /\ hist.faults = 0) => exitCode = 0

\* C13 (as claimed): a node whose page operation threw because the handler
\* had closed the browser does not get that error as its content, and it is
\* not before the cursor of the checkpoint the pause stores.
C13_TeardownIsInterruption ==
  \A k \in hist.nodeThrows :
    content[allModules[k + 1]] = ErrorContent(ClosedMsg)
      => /\ FALSE
         /\ hist.pauseStored => k >= store.processedModules

C15_BrowserClosedAtExit ==
  (pc = "exited" /\ hist.launches > 0)
    => (chrome = "closed" /\ hist.closeCalls >= 1)

\* C15 witness: a run interrupted inside the loop has ended with the
\* browser closed by the main flow's prepareMigration.
C15_Witness ==
  /\ pc = "exited"
  /\ hist.launches = 1
  /\ err = MigrationMsg
  /\ hist.pausedAt >= 0
  /\ browser = "null"
  /\ chrome = "closed"

\* C16 (as claimed): a run that ended with an error, the migration error
\* or a fatal one, has pushed no record.
C16_AbortedEmitsNothing ==
  (pc = "exited" /\ err # "none") => hist.emitted = <<>>

\* C16 (amended): pushData is called only when the phase is 'completed';
\* a run paused by the interruption, and a run aborted by an error other
\* than a failure of the sink itself, has pushed no record.
C16_EmitOnlyAfterCompleted ==
  /\ pc \in {"push_result", "push_items"} => currentState.step = "completed"
  /\ hist.emitted # <<>> => currentState.step = "completed"
  /\ (hist.pausedAt >= 0 \/ err = MigrationMsg) => hist.emitted = <<>>
  /\ err \notin {"none", SinkMsg} => hist.emitted = <<>>

\* C16 witness: a run paused before node 1 of 5 has ended and the dataset
\* is empty.
C16_Witness ==
  /\ hist.pausedAt = 1
  /\ Len(allModules) = 5
  /\ pc = "exited"
  /\ err = MigrationMsg
  /\ dataset = <<>>

\* C17: the aggregate record a completed run pushes has one entry per
\* discovered node, in flattened order, so one for each node with an id;
\* its totalModules is the length of that list; no node with an id has the
\* placeholder of an unscraped node, and a node whose page operation threw
\* has the error string as its content.
C17_FullLengthOutput ==
  hist.emitted # <<>> =>
    LET r == hist.emitted[1]
    IN  /\ Len(r.data) = Len(Flatten(site))
        /\ r.totalModules = Len(r.data)
        /\ \A k \in 1..Len(allModules) :
             /\ r.data[allModules[k]].node = allModules[k]
             /\ r.data[allModules[k]].content # "No content scraped"
        /\ \A k \in hist.nodeThrows :
             r.data[allModules[k + 1]].content
               \in {ErrorContent(TimeoutMsg), ErrorContent(ClosedMsg)}
        /\ \A n \in 2..Len(hist.emitted) : hist.emitted[n] = r.data[n - 1]

\* C17 witness: a run over 3 + 1 nodes in which one navigation timed out
\* has pushed the aggregate record and all 4 node records.
C17_Witness ==
  /\ site = << <<TRUE, TRUE, TRUE>>, <<FALSE>> >>
  /\ hist.nodeThrows # {}
  /\ Len(hist.emitted) = 5
  /\ pc = "exited"
  /\ exitCode = 0

\* C18 (as claimed): for the tree of 3 modules with ids and 1 without, a
\* completed run pushes 4 flattened records and the record of the module
\* without id carries an error text, not the placeholder of an unscraped
\* node.
C18_MissingIdIsError ==
  (site = << <<TRUE, TRUE, TRUE>>, <<FALSE>> >> /\ hist.emitted # <<>>)
    => /\ Len(hist.emitted[1].data) = 4
       /\ hist.emitted[1].data[4].content # "No content scraped"

\* C19: every node the loop body ran for, and every node page.goto was
\* called for, has an id, and page.goto is called only with a URL that
\* generateModuleUrl could build.
C19_NoLocatorNoNavigation ==
  /\ \A n \in 1..Len(hist.attempted) :
       Flatten(site)[allModules[hist.attempted[n] + 1]].hasId
  /\ \A n \in 1..Len(hist.navigated) :
       /\ Flatten(site)[allModules[hist.navigated[n] + 1]].hasId
       /\ baseClassroomUrl
  /\ pc = "nav" =>
       generateModuleUrl(baseClassroomUrl, Flatten(site)[allModules[i + 1]].hasId)

\* C19 witness: the tree whose first module has no id was harvested to the
\* end with a single navigation, to the module with an id.
C19_Witness ==
  /\ site = << <<FALSE, TRUE>>, <<>> >>
  /\ allModules = <<2>>
  /\ hist.navigated = <<0>>
  /\ currentState.step = "completed"
  /\ pc = "exited"

\* C20 (as claimed): no node has a navigation timeout stored under the
\* generic text "Error scraping content: <detail>".
C20_TimeoutHasOwnText ==
  \A k \in 1..Len(content) : content[k] # ErrorContent(TimeoutMsg)

\* Flat position of the n-th attempted node.
AttemptedNode(n) == Flatten(site)[allModules[hist.attempted[n] + 1]]

\* C21: the indices of the nodes attempted in this run are strictly
\* increasing, and so are their places in the tree: a later attempt is in
\* a later section, or in the same section at a later module.
C21_AttemptsInTreeOrder ==
  \A n \in 1..Len(hist.attempted), m \in 1..Len(hist.attempted) :
    n < m =>
      /\ hist.attempted[n] < hist.attempted[m]
      /\ \/ AttemptedNode(n).section < AttemptedNode(m).section
         \/ /\ AttemptedNode(n).section = AttemptedNode(m).section
            /\ AttemptedNode(n).module < AttemptedNode(m).module

\* C21 witness: all 5 nodes of the two-section tree were attempted, one of
\* them failed, and the run has ended.
C21_Witness ==
  /\ hist.attempted = <<0, 1, 2, 3, 4>>
  /\ hist.nodeThrows # {}
  /\ pc = "exited"

\* C22 (as claimed): within a run the in-memory cursor does not decrease,
\* the cursor of a stored checkpoint that is fresh does not decrease, and
\* totalModules does not change once the node list exists.
C22_CursorsNeverDecrease ==
  [][run' = run =>
       /\ currentState'.processedModules >= currentState.processedModules
       /\ Restorable(store, now)
            => store'.processedModules >= store.processedModules
       /\ allModules # <<>>
            => currentState'.totalModules = currentState.totalModules]_vars

\* Position of a phase in initializing .. completed.
PhaseRank(step) ==
  CASE step = "initializing" -> 0
    [] step = "initialized" -> 1
    [] step = "logged_in" -> 2
    [] step = "scraping" -> 3
    [] step = "completed" -> 4

\* C23: within a run the phase of currentState never moves backward (the
\* load moves it forward to the restored phase, or leaves it at the
\* beginning), and no step of the 'migrating' handler changes currentState.
C23_PhaseMovesForward ==
  [][run' = run =>
       /\ PhaseRank(currentState'.step) >= PhaseRank(currentState.step)
       /\ hpc' # hpc => currentState' = currentState]_vars

\* C23 witness: a run resumed at 'logged_in' has gone on to 'completed'.
C23_Witness ==
  /\ resumed
  /\ loaded.step = "logged_in"
  /\ currentState.step = "completed"
  /\ pc = "exited"

\* No content container can be queried in DOM d.
NoContainer(d) == d.editor = Absent /\ d.fallback = <<>>

\* Content of the node of the n-th extraction.
ShownContent(n) == content[allModules[hist.shown[n].node + 1]]

\* C24: a node whose page had no content container has the content
\* "No content found": not an empty string, and nothing was thrown.
C24_NoContainerGivesSentinel ==
  \A n \in 1..Len(hist.shown) :
    (hist.shown[n].evalOk /\ NoContainer(hist.shown[n].dom))
      => /\ ShownContent(n) = "No content found"
         /\ ShownContent(n) # ""
         /\ hist.shown[n].node \notin hist.nodeThrows

\* C24 witness: a completed run had a node without any content container.
C24_Witness ==
  /\ \E n \in 1..Len(hist.shown) :
       hist.shown[n].evalOk /\ NoContainer(hist.shown[n].dom)
  /\ currentState.step = "completed"
  /\ pc = "exited"

\* C25: no error leaves extractTextContent: a node whose page.evaluate
\* failed has the content "Error extracting content", it did not enter the
\* loop's catch, the cursor has passed it, and main never gets an error
\* thrown by the extraction.
C25_ExtractionNeverThrows ==
  /\ hist.thrownAt # "extract"
  /\ \A n \in 1..Len(hist.shown) :
       ~hist.shown[n].evalOk
         => /\ ShownContent(n) = "Error extracting content"
            /\ hist.shown[n].node \notin hist.nodeThrows
            /\ currentState.processedModules > hist.shown[n].node

\* C25 witness: a run with a failed evaluation has completed and exited
\* with code 0.
C25_Witness ==
  /\ \E n \in 1..Len(hist.shown) : ~hist.shown[n].evalOk
  /\ currentState.step = "completed"
  /\ pc = "exited"
  /\ exitCode = 0

\* C27 (as claimed): at most one saveState request is in flight.
C27_SingleWriter == Len(pending) <= 1

\* C28 (as claimed): once the flag is set, the main flow begins no login
\* form interaction, classroom navigation, node navigation or extraction.
C28_NoSubStepAfterFlag ==
  [][(shouldMigrate /\ pc' # pc)
       => pc' \notin {"login_form", "goto_classroom", "nav", "extract"}]_vars

\* C29 (as claimed): a run that restored a 'scraping' checkpoint with nodes
\* left works on the node list the cursor was saved against: when it ends,
\* its node list has the checkpoint's totalModules entries.
C29_ResumedListIsSavedList ==
  (ResumedHarvest /\ pc = "exited") => Len(allModules) = loaded.totalModules

\* The page of the n-th extraction had no usable primary editor text.
NoEditorText(n) == hist.shown[n].dom.editor \in {Absent, ""}

\* C30 (as claimed): the content taken from a container of the page is
\* longer than 10 characters.
C30_OnlyLongTexts ==
  \A n \in 1..Len(hist.shown) :
    (/\ hist.shown[n].evalOk
     /\ \/ ShownContent(n) = hist.shown[n].dom.editor
        \/ \E k \in 1..Len(hist.shown[n].dom.fallback) :
             ShownContent(n) = hist.shown[n].dom.fallback[k])
      => Len(ShownContent(n)) > MinFallbackLen

\* C30 (amended): a non-empty primary editor text is the content, whatever
\* its length; otherwise the content is the first fallback text, in
\* selector order, that is longer than 10 characters, and "No content
\* found" when no fallback text is that long.
C30_EditorThenLongFallback ==
  \A n \in 1..Len(hist.shown) :
    hist.shown[n].evalOk =>
      LET fb == hist.shown[n].dom.fallback
      IN  /\ ~NoEditorText(n) => ShownContent(n) = hist.shown[n].dom.editor
          /\ NoEditorText(n) =>
               \/ \E k \in 1..Len(fb) :
                    /\ ShownContent(n) = fb[k]
                    /\ Len(fb[k]) > MinFallbackLen
                    /\ \A j \in 1..(k - 1) : Len(fb[j]) <= MinFallbackLen
               \/ /\ ShownContent(n) = "No content found"
                  /\ \A k \in 1..Len(fb) : Len(fb[k]) <= MinFallbackLen

\* C30 witness: a page whose first fallback container is short and whose
\* second is long gave the second one's text.
C30_Witness ==
  /\ \E n \in 1..Len(hist.shown) :
       /\ hist.shown[n].evalOk
       /\ hist.shown[n].dom.fallback = <<"short", "Main area lesson text">>
       /\ ShownContent(n) = "Main area lesson text"
  /\ pc = "exited"

\* Failures of the page or the sink other than the one that made
\* extractCourseStructure return null.
JsOtherFaults ==
  hist.faults - (IF site.course /\ hist.structure = "null" THEN 1 ELSE 0)

\* C26: when extractCourseStructure returns null in the enhanced method, the
\* run does not fail for it: it ends with an error only for a later failure
\* of the page or the sink, every aggregate record it emits has type
\* 'regular', and with no other failure it exits with code 0 having emitted
\* that record.
C26_FallbackEmitsRegular ==
  hist.structure = "null" =>
    /\ err \in {"none", EvalMsg, SinkMsg}
    /\ hist.emitted # <<>> => hist.emitted[1].type = "regular"
    /\ (pc = "js_exited" /\ JsOtherFaults = 0) =>
         /\ exitCode = 0
         /\ hist.emitted # <<>>
         /\ hist.tabsCalls > 0

C26_Witness ==
  /\ pc = "js_exited"
  /\ hist.structure = "null"
  /\ site.course
  /\ exitCode = 0
  /\ Len(hist.emitted) > 1
  /\ hist.emitted[1].type = "regular"


\* C31: a call of matchAndAddContent whose title equals the title of some
\* module of the course structure assigns the content to a module with
\* that title, also when an earlier module matches only partially.
C31_ExactMatchFirst ==
  \A c \in 1..Len(hist.matched) :
    LET m == hist.matched[c]
        titles == JsTitles(site.tree)
    IN  (\E k \in 1..Len(titles) : titles[k] = m.title) =>
          /\ m.node # 0
          /\ titles[m.node] = m.title


\* C32: whenever page.goto has been called for a module, the login form
\* was submitted in this process, on the browser the process launched.
C32_NavigationAfterLogin ==
  (hist.navigated # <<>> /\ hist.launches > 0) => hist.loggedIn


\* C33: while extractCourseStructure runs (and so before any module URL is
\* generated), navigateToClassroom has completed in this process: the base
\* classroom URL is set and the page shows the classroom.
C33_DiscoveryAfterClassroom ==
  pc = "extract_structure" => (baseClassroomUrl /\ page = "classroom")


\* C34: browser.close() is called at most once in a process, whatever the
\* interleaving of the handler's prepareMigration, the main flow's
\* prepareMigration and the final close().
C34_CloseAtMostOnce == hist.closeCalls <= 1


\* The process has ended and the stored checkpoint, written by this
\* process, says 'completed' (the process did not start from a completed
\* checkpoint).
EndedCompleted ==
  /\ pc = "exited"
  /\ pending = <<>>
  /\ store # NoState
  /\ store.step = "completed"
  /\ store.timestamp = now
  /\ ~(loaded # NoState /\ loaded.step = "completed")

\* C35: a process that ends with the checkpoint at 'completed' has pushed
\* the aggregate record and every per-module record.
C35_CompletedMeansEmitted ==
  EndedCompleted =>
    hist.emitted = <<ResultRecord(site, content)>> \o FlattenedData(content)


\* The harvest loop is running in a process that logged in and discovered
\* the tree, and no 'migrating' signal has arrived.
Harvesting ==
  /\ pc \in {"nav", "extract", "save_loop"}
  /\ hist.loggedIn
  /\ ~shouldMigrate

\* The process reached 'completed' and pushed the aggregate record and
\* every per-module record.
CompletedAndEmitted ==
  /\ currentState.step = "completed"
  /\ hist.emitted = <<ResultRecord(site, content)>> \o FlattenedData(content)

RecordsTitled(d, t) == Cardinality({k \in 1..Len(d) : d[k].tabTitle = t})

\* C37: on the fallback path (extractCourseStructure returned null)
\* scrapeClassroomTabs runs once, page.goto is called at most once per
\* module link, and the 'regular' result holds at most one record per
\* module link and at most one record of the current page.
C37_FallbackScrapesOnce ==
  hist.structure = "null" =>
    /\ hist.tabsCalls <= 1
    /\ \A a, b \in 1..Len(hist.visited) :
         hist.visited[a] = hist.visited[b] => a = b
    /\ hist.emitted # <<>> =>
         /\ RecordsTitled(hist.emitted[1].data, CurrentPageRecord.tabTitle) <= 1
         /\ \A l \in 1..Len(allModules) :
              RecordsTitled(hist.emitted[1].data, allModules[l].text) <= 1


\* The awaits of saveState in the main flow outside prepareMigration.
SavePcs == {"save_login", "save_scraping", "save_loop", "save_completed"}

\* C38: a saveState of the main flow that fails changes neither the
\* store nor cursor, contents or data, the phase changes only by the loop
\* ending, and outside prepareMigration the run goes on without error; a
\* failing saveState of the handler changes nothing of these; a loadState
\* that fails, finds no value or finds a value without timestamp leaves
\* the constructor's state and init goes on to launch the browser.
C38_StoreFailuresAbsorbed ==
  [][ /\ (/\ pc \in SavePcs \cup {"save_pause_login", "save_pause_loop"}
          /\ pc' # pc
          /\ hist'.faults = hist.faults + 1)
        => /\ store' = store
           /\ content' = content
           /\ data' = data
           /\ currentState'.processedModules = currentState.processedModules
           /\ (currentState'.step = currentState.step \/ pc' = "save_completed")
           /\ pc \in SavePcs => /\ pc' \notin {"closing", "exited"}
                                /\ err' = "none"
                                /\ exitCode' = -1
      /\ (hpc = "h_save" /\ hpc' # hpc /\ hist'.faults = hist.faults + 1)
        => /\ store' = store
           /\ currentState' = currentState
           /\ content' = content
           /\ data' = data
           /\ pc' = pc
           /\ err' = err
      /\ (/\ pc = "init_load"
          /\ pc' # pc
          /\ \/ hist'.faults = hist.faults + 1
             \/ store = NoState
             \/ store.timestamp = 0)
        => /\ pc' = "init_launch"
           /\ ~resumed'
           /\ loaded' = NoState
           /\ currentState' = ConstructorState
           /\ data' = <<>>
           /\ err' = "none"
           /\ exitCode' = -1
    ]_vars

\* C38 witness: loadState found a value without timestamp, the run
\* started afresh and logged in, the saveState of login failed (the store
\* still holds the old value) and navigateToClassroom is under way.
C38_Witness ==
  /\ pc = "goto_classroom"
  /\ run = 1
  /\ hist.seen = UntimedCheckpoint
  /\ store = UntimedCheckpoint
  /\ hist.faults = 1
  /\ hist.loggedIn
  /\ pending = <<>>
  /\ ~shouldMigrate
  /\ ~resumed


\* C39: when Actor.getValue returned a checkpoint, loadState restored it
\* iff its age is strictly less than 3,600,000 ms; a restored state is
\* the checkpoint's, and without a restore init goes on with the phase,
\* cursor and data of the constructor.
C39_RestoreIffYoungerThanWindow ==
  hist.seen # NoState =>
    /\ resumed <=> (now - hist.seen.timestamp < FreshWindowMs)
    /\ resumed => loaded = hist.seen
    /\ (pc = "init_launch" /\ resumed) =>
         /\ currentState = Restore(hist.seen)
         /\ data = hist.seen.scrapedData
    /\ (pc = "init_launch" /\ ~resumed) =>
         /\ currentState = ConstructorState
         /\ data = <<>>
         /\ loaded = NoState

\* C39 witness: a checkpoint exactly 3,600,000 ms old was read and init
\* goes on with the constructor's state.
C39_Witness ==
  /\ pc = "init_launch"
  /\ hist.seen # NoState
  /\ now - hist.seen.timestamp = FreshWindowMs
  /\ hist.seen.step = "scraping"
  /\ ~resumed
  /\ currentState = ConstructorState
  /\ data = <<>>


\* The index of the first link of l whose href is h.
FirstAt(l, h) ==
  CHOOSE j \in 1..Len(l) :
    l[j].href = h /\ \A j2 \in 1..Len(l) : l[j2].href = h => j <= j2

\* C40: once the module links were read and filtered, uniqueModuleLinks
\* holds, for every href among the page's links, exactly one link, the
\* first with that href, and nothing else; the kept links are in the
\* order of their first occurrences; filtering the result again changes
\* nothing.
C40_DedupKeepsFirstInOrder ==
  hist.deduped > 0 =>
    LET l == site.links
        u == allModules
    IN  /\ \A j \in 1..Len(l) :
             Cardinality({k \in 1..Len(u) : u[k].href = l[j].href}) = 1
        /\ \A k \in 1..Len(u) :
             /\ \E j \in 1..Len(l) : l[j].href = u[k].href
             /\ u[k] = l[FirstAt(l, u[k].href)]
        /\ \A a, b \in 1..Len(u) :
             a < b => FirstAt(l, u[a].href) < FirstAt(l, u[b].href)
        /\ uniqueModuleLinks(u) = u

\* C40 witness: a list with a repeated href between two others was
\* filtered.
C40_Witness ==
  /\ hist.deduped > 0
  /\ Len(site.links) = 3
  /\ site.links[1].href = "b"
  /\ site.links[2].href = "a"
  /\ site.links[3].href = "b"
  /\ allModules = <<site.links[1], site.links[2]>>

====
